---- MODULE Spec2Model ----
(***************************************************************************)
(* kubor-demo1: the lifecycle of the demo HTTP service of src/app.go.      *)
(* src/app.go holds two variants of the program: the simple one (lines     *)
(* 1-121) and the extended one (lines 123-293).  The model covers both;    *)
(* the variable "variant" says which one runs.                             *)
(*                                                                         *)
(* Goroutines: main (the lifecycle controller), the signal goroutine of    *)
(* registerGracefulShutdown, the server goroutine of runServer and one     *)
(* goroutine per HTTP request (a handler slot).  Each action is one step   *)
(* of one goroutine; os.Exit ends all of them.                             *)
(***************************************************************************)
EXTENDS Integers, Sequences, FiniteSets, TLC

\* ---------------------------------------------------------------- bounds
MaxDur      == 1   \* readyAfter and exitAfter are 0 or MaxDur ticks
MaxTime     == 1   \* the clock runs freely up to MaxTime (longer only for a pending Sleep)
MaxHandlers == 1   \* concurrent request goroutines
MaxLen      == 4   \* length of the statusCode query value (DiagSpec)

\* ------------------------------------------------------- program constants
StatusOK                 == 200
StatusServiceUnavailable == 503
StatusMethodNotAllowed   == 405
StatusNotFound           == 404
SignalExitCode           == 0
FatalExitCode            == 1

Variants  == {"simple", "extended"}
Signals   == {"SIGTERM", "SIGINT"}
Methods   == {"GET", "POST"}
Paths     == {"/", "/healthz", "/other"}
ExitCodes == {0, 7}
Durations == {0, MaxDur}
Handlers  == 1..MaxHandlers

\* characters a statusCode query value is made of, and its values
Alphabet == {"0", "1", "2", "4", "5", "9", "a", "+", "-"}
Strings  == UNION {[1..n -> Alphabet] : n \in 0..MaxLen}
\* an absent statusCode parameter: Query().Get gives the empty string
Absent   == <<>>

VARIABLES
  variant,     \* which main package runs
  readyAfter,  \* *readyAfter, in ticks
  exitAfter,   \* *exitAfter, in ticks
  exitCode,    \* *exitCode
  ready,       \* the atomic.Value ready
  mainPc,      \* position of the main goroutine
  sigPc,       \* position of the goroutine of registerGracefulShutdown
  notified,    \* signals signal.Notify has registered for gracefulStop
  srvPc,       \* position of the goroutine of runServer
  hs,          \* handler slot -> request goroutine
  now,         \* the clock: ticks since main entered waitToBeReady
  wakeAt,      \* deadline of main's running time.Sleep
  status,      \* "running", "exited" (os.Exit) or "killed" (default signal action)
  exitStatus,  \* the code given to os.Exit; -1 while there is none
  exitedBy,    \* which os.Exit call ended the process
  waitStart,   \* history: time at which main entered waitToBeReady; -1 before
  readyAt,     \* history: time of ready.Store(true); -1 before
  signalled,   \* history: a signal has been delivered to the process
  seen200      \* history: a GET /healthz has been answered 200

cfg  == <<variant, readyAfter, exitAfter, exitCode>>
proc == <<status, exitStatus, exitedBy>>
hist == <<waitStart, readyAt, seen200>>
vars == <<variant, readyAfter, exitAfter, exitCode, ready, mainPc, sigPc,
          notified, srvPc, hs, now, wakeAt, status, exitStatus, exitedBy,
          waitStart, readyAt, signalled, seen200>>

\* a request goroutine.  form is req.Form as the set of its fields: net/http
\* leaves it nil until ParseForm is called, which no handler does.  bodyForm
\* is the form entry of the JSON document sent, {} when there is none.
IdleHandler ==
  [pc |-> "idle", method |-> "GET", path |-> "/", query |-> <<>>,
   r |-> "unread", early |-> FALSE, code |-> 0, body |-> "",
   hdr |-> "", ctype |-> "",
   form |-> {}, bodyForm |-> {}, after |-> FALSE]

Running == status = "running"

\* ------------------------------------------------------------ pure helpers

\* strconv.Atoi on the characters of s: an optional sign, then digits only
IsDigit(c) == c \in {"0", "1", "2", "4", "5", "9"}

DigitVal(c) ==
  CASE c = "0" -> 0 [] c = "1" -> 1 [] c = "2" -> 2
    [] c = "4" -> 4 [] c = "5" -> 5 [] c = "9" -> 9 [] OTHER -> 0

RECURSIVE DigitsVal(_)
DigitsVal(s) ==
  IF s = <<>> THEN 0
  ELSE 10 * DigitsVal(SubSeq(s, 1, Len(s) - 1)) + DigitVal(s[Len(s)])

Atoi(s) ==
  LET signed == s # <<>> /\ s[1] \in {"+", "-"}
      digits == IF signed THEN Tail(s) ELSE s
      ok     == digits # <<>> /\ \A i \in 1..Len(digits) : IsDigit(digits[i])
      n      == IF ok THEN DigitsVal(digits) ELSE 0
  IN  [err |-> ~ok, n |-> IF signed /\ s[1] = "-" THEN 0 - n ELSE n]

\* handleEveryThingElse: the range check on the parsed statusCode
InRange_m(n) == n > 100 /\ n < 1000
InRange(n) == n >= 100 /\ n < 1000

\* handleHealth: the response for the loaded flag value
HealthCode_m(r) == StatusOK
HealthCode_inv(r) == IF r = "true" THEN StatusServiceUnavailable ELSE StatusOK
HealthCode(r) == IF r = "true" THEN StatusOK ELSE StatusServiceUnavailable

HealthBody(r) == IF r = "true" THEN "OK" ELSE "NOT_READY"

MethodAllowed_m(m) == TRUE
MethodAllowed(m) == m = "GET"

\* time.Sleep(d) returns once at least d has passed
SleepReturns_m(t, wake) == t + 1 >= wake
SleepReturns_strict(t, wake) == t > wake
SleepReturns(t, wake) == t >= wake

\* waitToBeReady: does it call time.Sleep?
Sleeps(v, d) == v = "simple" \/ d > 0

\* justRun: does it block for ever?
RunsForEver_m(d) == d < 0
RunsForEver_always(d) == TRUE
RunsForEver(d) == d = 0

\* the process ends and every goroutine with it: a handler in flight is
\* aborted and writes nothing any more; the responses already written are
\* with their clients and no longer state of the process
processEnds ==
  [h \in Handlers |-> IF hs[h].pc = "loaded" THEN [IdleHandler EXCEPT !.pc = "aborted"]
                                              ELSE IdleHandler]

\* os.Exit: the process ends, once
osExit(code, by) ==
  /\ status' = "exited"
  /\ exitStatus' = code
  /\ exitedBy' = by
  /\ hs' = processEnds

\* ------------------------------------------------------------------- init
Init ==
  /\ variant \in Variants
  /\ readyAfter \in Durations
  /\ exitAfter \in Durations
  /\ exitCode \in ExitCodes
  /\ ready = FALSE
  /\ mainPc = "NotifySIGTERM"
  /\ sigPc = "none"
  /\ notified = {}
  /\ srvPc = "none"
  /\ hs = [h \in Handlers |-> IdleHandler]
  /\ now = 0
  /\ wakeAt = 0
  /\ status = "running"
  /\ exitStatus = -1
  /\ exitedBy = "none"
  /\ waitStart = -1
  /\ readyAt = -1
  /\ signalled = FALSE
  /\ seen200 = FALSE

\* ------------------------------------------------ main: the lifecycle controller

\* registerGracefulShutdown: signal.Notify(gracefulStop, syscall.SIGTERM)
NotifySIGTERM ==
  /\ Running /\ mainPc = "NotifySIGTERM"
  /\ notified' = notified \cup {"SIGTERM"}
  /\ mainPc' = "NotifySIGINT"
  /\ UNCHANGED <<cfg, ready, sigPc, srvPc, hs, now, wakeAt, proc, hist, signalled>>

\* registerGracefulShutdown: signal.Notify(gracefulStop, syscall.SIGINT)
NotifySIGINT ==
  /\ Running /\ mainPc = "NotifySIGINT"
  /\ notified' = notified \cup {"SIGINT"}
  /\ mainPc' = "goShutdown"
  /\ UNCHANGED <<cfg, ready, sigPc, srvPc, hs, now, wakeAt, proc, hist, signalled>>

\* registerGracefulShutdown: go func() { ... }() starts the signal goroutine
GoShutdown ==
  /\ Running /\ mainPc = "goShutdown"
  /\ sigPc' = "spawned"
  /\ mainPc' = "goRunServer"
  /\ UNCHANGED <<cfg, ready, notified, srvPc, hs, now, wakeAt, proc, hist, signalled>>

\* main: go runServer()
GoRunServer ==
  /\ Running /\ mainPc = "goRunServer"
  /\ srvPc' = "starting"
  /\ mainPc' = "waitToBeReady"
  /\ UNCHANGED <<cfg, ready, sigPc, notified, hs, now, wakeAt, proc, hist, signalled>>

\* waitToBeReady: enter, and call time.Sleep(*readyAfter) unless it is skipped
WaitToBeReady ==
  /\ Running /\ mainPc = "waitToBeReady"
  /\ waitStart' = now
  /\ IF Sleeps(variant, readyAfter)
       THEN mainPc' = "SleepReady" /\ wakeAt' = now + readyAfter
       ELSE mainPc' = "Store" /\ UNCHANGED wakeAt
  /\ UNCHANGED <<cfg, ready, sigPc, notified, srvPc, hs, now, proc, readyAt, signalled, seen200>>

\* waitToBeReady: time.Sleep(*readyAfter) returns
WakeReady_m ==
  /\ Running /\ mainPc = "SleepReady"
  /\ SleepReturns(now, wakeAt)
  /\ mainPc' = "justRun"
  /\ UNCHANGED <<cfg, ready, sigPc, notified, srvPc, hs, now, wakeAt, proc, hist, signalled>>
WakeReady ==
  /\ Running /\ mainPc = "SleepReady"
  /\ SleepReturns(now, wakeAt)
  /\ mainPc' = "Store"
  /\ UNCHANGED <<cfg, ready, sigPc, notified, srvPc, hs, now, wakeAt, proc, hist, signalled>>

\* waitToBeReady: ready.Store(true)
StoreReady ==
  /\ Running /\ mainPc = "Store"
  /\ ready' = TRUE
  /\ readyAt' = now
  /\ mainPc' = "justRun"
  /\ UNCHANGED <<cfg, sigPc, notified, srvPc, hs, now, wakeAt, proc, waitStart, signalled, seen200>>

\* justRun: block for ever, or call time.Sleep(*exitAfter)
JustRun_m ==
  /\ Running /\ mainPc = "justRun"
  /\ ready' = FALSE
  /\ IF RunsForEver(exitAfter)
       THEN mainPc' = "blockForEver" /\ UNCHANGED wakeAt
       ELSE mainPc' = "SleepExit" /\ wakeAt' = now + exitAfter
  /\ UNCHANGED <<cfg, sigPc, notified, srvPc, hs, now, proc, hist, signalled>>
JustRun ==
  /\ Running /\ mainPc = "justRun"
  /\ IF RunsForEver(exitAfter)
       THEN mainPc' = "blockForEver" /\ UNCHANGED wakeAt
       ELSE mainPc' = "SleepExit" /\ wakeAt' = now + exitAfter
  /\ UNCHANGED <<cfg, ready, sigPc, notified, srvPc, hs, now, proc, hist, signalled>>

\* justRun: time.Sleep(*exitAfter) returns; main goes on to os.Exit
WakeExit ==
  /\ Running /\ mainPc = "SleepExit"
  /\ SleepReturns(now, wakeAt)
  /\ mainPc' = "Exit"
  /\ UNCHANGED <<cfg, ready, sigPc, notified, srvPc, hs, now, wakeAt, proc, hist, signalled>>

\* main: os.Exit(*exitCode)
MainExit_m ==
  /\ Running /\ mainPc = "Exit"
  /\ osExit(FatalExitCode, "main")
  /\ UNCHANGED <<cfg, ready, mainPc, sigPc, notified, srvPc, now, wakeAt, hist, signalled>>
MainExit ==
  /\ Running /\ mainPc = "Exit"
  /\ osExit(exitCode, "main")
  /\ UNCHANGED <<cfg, ready, mainPc, sigPc, notified, srvPc, now, wakeAt, hist, signalled>>

\* ------------------------------------------------------ the signal goroutine

\* the goroutine reaches sig := <-gracefulStop and blocks in the receive
SigReceive ==
  /\ Running /\ sigPc = "spawned"
  /\ sigPc' = "recv"
  /\ UNCHANGED <<cfg, ready, mainPc, notified, srvPc, hs, now, wakeAt, proc, hist, signalled>>

\* the operating system delivers sig.  Not registered: the default action
\* kills the process.  Registered: package signal sends on gracefulStop
\* without blocking; the channel has no buffer, so the signal is received
\* only if the goroutine is blocked in the receive, and is dropped otherwise.
DeliverSignal(sig) ==
  /\ Running
  /\ signalled' = TRUE
  /\ IF sig \notin notified
       THEN /\ status' = "killed"
            /\ hs' = processEnds
            /\ UNCHANGED <<sigPc, exitStatus, exitedBy>>
       ELSE /\ sigPc' = IF sigPc = "recv" THEN "got" ELSE sigPc
            /\ UNCHANGED <<proc, hs>>
  /\ UNCHANGED <<cfg, ready, mainPc, notified, srvPc, now, wakeAt, hist>>

\* the goroutine has logged the signal: os.Exit(0)
SigExitCode_m == exitCode
SigExitCode == SignalExitCode

SigExit ==
  /\ Running /\ sigPc = "got"
  /\ osExit(SigExitCode, "signal")
  /\ UNCHANGED <<cfg, ready, mainPc, sigPc, notified, srvPc, now, wakeAt, hist, signalled>>

\* ------------------------------------------------------ the server goroutine

\* http.ListenAndServe binds the address and starts to accept connections
Listen ==
  /\ Running /\ srvPc = "starting"
  /\ srvPc' = "serving"
  /\ UNCHANGED <<cfg, ready, mainPc, sigPc, notified, hs, now, wakeAt, proc, hist, signalled>>

\* http.ListenAndServe returns an error: the bind failed, or Accept did
ListenAndServeErr ==
  /\ Running /\ srvPc \in {"starting", "serving"}
  /\ srvPc' = "failed"
  /\ UNCHANGED <<cfg, ready, mainPc, sigPc, notified, hs, now, wakeAt, proc, hist, signalled>>

\* log.Fatalf: os.Exit(1)
Fatalf_m ==
  /\ Running /\ srvPc = "failed"
  /\ osExit(0, "fatal")
  /\ UNCHANGED <<cfg, ready, mainPc, sigPc, notified, srvPc, now, wakeAt, hist, signalled>>
Fatalf ==
  /\ Running /\ srvPc = "failed"
  /\ osExit(FatalExitCode, "fatal")
  /\ UNCHANGED <<cfg, ready, mainPc, sigPc, notified, srvPc, now, wakeAt, hist, signalled>>

\* --------------------------------------------------------- request goroutines

\* http.ResponseWriter as the handlers use it.  hdr is the Content-Type of
\* the header map the handler holds, sent the Content-Type of the headers
\* that are committed to the wire, "" standing for none.
NewWriter ==
  [wroteHeader |-> FALSE, code |-> 0, hdr |-> "", sent |-> "", body |-> "",
   form |-> {}]

\* resp.Header().Set("Content-Type", v): changes the handler's map only
SetContentType(w, v) == [w EXCEPT !.hdr = v]

\* resp.WriteHeader(c): the status and the headers as they are now are
\* committed; a second call is ignored
WriteHeader(w, c) ==
  IF w.wroteHeader THEN w
  ELSE [w EXCEPT !.wroteHeader = TRUE, !.code = c, !.sent = w.hdr]

\* http.DetectContentType on the bodies written here, all of them text
DetectContentType(data) == "text/plain; charset=utf-8"

\* net/http: a 1xx, 204 or 304 response has no body
bodyAllowedForStatus(c) == ~(c \in 100..199 \/ c = 204 \/ c = 304)

\* resp.Write(data): an implicit WriteHeader(200), a Content-Type sniffed
\* from the data if the committed headers have none, and the body if the
\* status allows one (ErrBodyNotAllowed otherwise, which the handlers log)
Write(w, data) ==
  LET w1 == WriteHeader(w, StatusOK)
  IN  [w1 EXCEPT !.sent = IF w1.sent = "" THEN DetectContentType(data) ELSE w1.sent,
                 !.body = IF bodyAllowedForStatus(w1.code) THEN data ELSE ""]

\* http.Error(resp, msg, code)
Error(w, msg, c) ==
  Write(WriteHeader(SetContentType(w, "text/plain; charset=utf-8"), c), msg)

\* the request goroutine has written its response w
Response(req, w) ==
  [req EXCEPT !.pc = "done", !.code = w.code, !.body = w.body,
              !.hdr = w.hdr, !.ctype = w.sent, !.bodyForm = w.form]

\* handleHealth after the load: WriteHeader, then Content-Type, then the body
handleHealthWrite(r) ==
  Write(SetContentType(WriteHeader(NewWriter, HealthCode(r)), "text/plain"),
        HealthBody(r))

\* handleRoot
handleRoot == Write(SetContentType(NewWriter, "text/plain"), "Hello world!")

\* req.URL.Query(): the fields of the query string
Query(req) == IF req.query = Absent THEN {} ELSE {"statusCode"}

\* responseBodyFor: result.Request.Form = req.Form
responseBodyFor(req) == [form |-> req.form]

\* json.Encoder.Encode of the body: omitempty leaves an empty form out
Encode(w, body) ==
  LET w1 == Write(w, "json")
  IN  [w1 EXCEPT !.form = IF w1.body = "json" THEN body.form ELSE {}]

\* handleEveryThingElse: Content-Type, the status override, the JSON document
handleEveryThingElse(req) ==
  LET w0 == SetContentType(NewWriter, "application/json")
      a  == Atoi(req.query)
      w1 == IF ~a.err /\ InRange(a.n) THEN WriteHeader(w0, a.n) ELSE w0
  IN  Encode(w1, responseBodyFor(req))

\* history: has less than readyAfter passed since main entered waitToBeReady?
BeforeReadyAfter == waitStart = -1 \/ now < waitStart + readyAfter

\* handleHealth up to r := ready.Load().(bool); early records when it read,
\* after whether the request started after a 200 of the health route
LoadReady(req) ==
  [req EXCEPT !.pc = "loaded",
              !.r = IF ready THEN "true" ELSE "false",
              !.early = BeforeReadyAfter,
              !.after = seen200]

\* handler of the simple variant
handlerSimple_m(req) ==
  IF ~MethodAllowed(req.method)
    THEN Response(req, Error(NewWriter, "Method Not Allowed", StatusMethodNotAllowed))
    ELSE CASE req.path = "/healthz" -> LoadReady(req)
           [] OTHER                 -> Response(req, handleRoot)
handlerSimple(req) ==
  IF ~MethodAllowed(req.method)
    THEN Response(req, Error(NewWriter, "Method Not Allowed", StatusMethodNotAllowed))
    ELSE CASE req.path = "/"        -> Response(req, handleRoot)
           [] req.path = "/healthz" -> LoadReady(req)
           [] OTHER                 -> Response(req, Error(NewWriter, "404 page not found", StatusNotFound))

\* handler of the extended variant, with handleHealth's method check and
\* the whole of handleEveryThingElse
handlerExtended_m(req) ==
  IF ~MethodAllowed(req.method)
    THEN Response(req, Error(NewWriter, "Method Not Allowed", StatusMethodNotAllowed))
    ELSE IF req.path = "/healthz" THEN LoadReady(req)
                                  ELSE Response(req, handleEveryThingElse(req))
handlerExtended(req) ==
  IF req.path = "/healthz"
    THEN IF ~MethodAllowed(req.method)
           THEN Response(req, Error(NewWriter, "Method Not Allowed", StatusMethodNotAllowed))
           ELSE LoadReady(req)
    ELSE Response(req, handleEveryThingElse(req))

\* the server accepts a request in a free slot and its goroutine runs
\* handler(resp, req), up to the response or, on the health route, the load
Handle(h, m, p, q) ==
  /\ Running /\ srvPc = "serving"
  /\ hs[h].pc \in {"idle", "done"}
  /\ LET req == [IdleHandler EXCEPT !.method = m, !.path = p, !.query = q]
     IN  hs' = [hs EXCEPT ![h] = IF variant = "simple" THEN handlerSimple(req)
                                                       ELSE handlerExtended(req)]
  /\ UNCHANGED <<cfg, ready, mainPc, sigPc, notified, srvPc, now, wakeAt, proc, hist, signalled>>

\* handleHealth after the load: WriteHeader and the body
WriteHealth(h) ==
  /\ Running /\ hs[h].pc = "loaded"
  /\ hs' = [hs EXCEPT ![h] = Response(hs[h], handleHealthWrite(hs[h].r))]
  /\ seen200' = (seen200 \/ hs'[h].code = StatusOK)
  /\ UNCHANGED <<cfg, ready, mainPc, sigPc, notified, srvPc, now, wakeAt, proc,
                 waitStart, readyAt, signalled>>

\* ------------------------------------------------------------------ the clock

MainSleeping == mainPc \in {"SleepReady", "SleepExit"}

\* time is counted from the moment main enters waitToBeReady
Tick ==
  /\ Running /\ waitStart >= 0
  /\ now < MaxTime \/ (MainSleeping /\ now < wakeAt)
  /\ now' = now + 1
  /\ UNCHANGED <<cfg, ready, mainPc, sigPc, notified, srvPc, hs, wakeAt, proc, hist, signalled>>

\* -------------------------------------------------------------- specification

Next ==
  \/ NotifySIGTERM
  \/ NotifySIGINT
  \/ GoShutdown
  \/ GoRunServer
  \/ WaitToBeReady
  \/ WakeReady
  \/ StoreReady
  \/ JustRun
  \/ WakeExit
  \/ MainExit
  \/ SigReceive
  \/ \E sig \in Signals : DeliverSignal(sig)
  \/ SigExit
  \/ Listen
  \/ ListenAndServeErr
  \/ Fatalf
  \/ \E h \in Handlers, m \in Methods, p \in Paths : Handle(h, m, p, Absent)
  \/ \E h \in Handlers : WriteHealth(h)
  \/ Tick

Spec == Init /\ [][Next]_vars

\* the main goroutine gets scheduled and time passes
MainNext ==
  \/ NotifySIGTERM \/ NotifySIGINT \/ GoShutdown \/ GoRunServer \/ WaitToBeReady
  \/ WakeReady \/ StoreReady \/ JustRun \/ WakeExit \/ MainExit

FairSpec == Spec /\ WF_vars(MainNext) /\ WF_vars(Tick)

\* the server goroutine gets scheduled after ListenAndServe returned; nothing
\* is assumed about main or the clock
ServerFairSpec == Spec /\ WF_vars(Fatalf)

\* ------------------------------------------------------------------------
\* The diagnostic route on its own: the extended variant is up and ready,
\* either blocked in blockForEver or not yet in waitToBeReady, and serves a
\* request to a path other than /healthz whose statusCode parameter is any
\* string over Alphabet of at most MaxLen characters, one request per
\* behaviour.
InitDiag ==
  /\ variant = "extended"
  /\ readyAfter = 0
  /\ exitAfter = 0
  /\ exitCode \in ExitCodes
  /\ \/ ready = TRUE  /\ mainPc = "blockForEver"  /\ waitStart = 0  /\ readyAt = 0
     \/ ready = FALSE /\ mainPc = "waitToBeReady" /\ waitStart = -1 /\ readyAt = -1
  /\ sigPc = "recv"
  /\ notified = Signals
  /\ srvPc = "serving"
  /\ hs = [h \in Handlers |-> IdleHandler]
  /\ now = 0
  /\ wakeAt = 0
  /\ status = "running"
  /\ exitStatus = -1
  /\ exitedBy = "none"
  /\ signalled = FALSE
  /\ seen200 = FALSE

NextDiag ==
  /\ hs[1].pc = "idle"
  /\ \E m \in Methods, p \in Paths \ {"/healthz"}, q \in Strings : Handle(1, m, p, q)

DiagSpec == InitDiag /\ [][NextDiag]_vars

\* ============================================================== properties

GetHealth(h)  == hs[h].method = "GET" /\ hs[h].path = "/healthz"
Answered(h)   == hs[h].pc = "done"
Ended         == status # "running"
HandlerStep   == \E h \in Handlers : hs'[h] # hs[h]

\* C1: the readiness flag starts false, is only ever changed by main's
\* ready.Store(true) in waitToBeReady, and is never false again once true,
\* whatever the signal goroutine and the request goroutines do meanwhile.
C1_ReadyMonotone ==
  /\ ready = FALSE
  /\ [][/\ ready => ready'
        /\ ready' # ready => (mainPc = "Store" /\ mainPc' = "justRun" /\ ready')]_vars

C1_Witness ==
  /\ ready /\ Running /\ mainPc = "blockForEver"
  /\ signalled
  /\ \E h \in Handlers : Answered(h) /\ GetHealth(h)

\* C2: once a signal has been sent to the process, the process never ends
\* in any other way than by exit code 0.
C2_SignalExitsZero ==
  (signalled /\ Ended) => (status = "exited" /\ exitStatus = 0)

\* C3: a GET /healthz is answered 200 OK when the handler read the flag as
\* true and 503 NOT_READY when it read false, nothing else; and the value
\* the handler works with is the value the flag had at the moment of the load.
C3_HealthInv ==
  \A h \in Handlers : (Answered(h) /\ GetHealth(h)) =>
    \/ hs[h].r = "true"  /\ hs[h].code = 200 /\ hs[h].body = "OK"
    \/ hs[h].r = "false" /\ hs[h].code = 503 /\ hs[h].body = "NOT_READY"

C3_HealthIffReady ==
  /\ []C3_HealthInv
  /\ [][\A h \in Handlers : (hs[h].pc # "loaded" /\ hs'[h].pc = "loaded") =>
          hs'[h].r = (IF ready THEN "true" ELSE "false")]_vars

\* a 503 whose flag read was overtaken by the store before the answer
C3_Witness ==
  \E h \in Handlers : Answered(h) /\ GetHealth(h) /\ hs[h].code = 503 /\ ready

\* C4: in the extended variant with readyAfter = 0 every answered
\* GET /healthz is a 200.
C4_ZeroDelayAlways200 ==
  \A h \in Handlers :
    (variant = "extended" /\ readyAfter = 0 /\ Answered(h) /\ GetHealth(h))
      => hs[h].code = 200

\* C5: with readyAfter > 0, a GET /healthz whose flag read happened before
\* readyAfter had passed since main entered waitToBeReady read false and is
\* answered 503 NOT_READY, and the flag is not true before that time.
C5_NotReadyBefore ==
  readyAfter > 0 =>
    /\ \A h \in Handlers : (hs[h].pc \in {"loaded", "done"} /\ GetHealth(h) /\ hs[h].early) =>
         /\ hs[h].r = "false"
         /\ Answered(h) => (hs[h].code = 503 /\ hs[h].body = "NOT_READY")
    /\ ready => (waitStart >= 0 /\ readyAt >= waitStart + readyAfter /\ now >= readyAt)

C5_Witness ==
  /\ readyAfter > 0 /\ ready
  /\ \E h \in Handlers : Answered(h) /\ GetHealth(h) /\ hs[h].early /\ hs[h].code = 503

\* C6 as stated: with exitAfter = 0 and no signal delivered the process
\* never ends.
C6_NeverExitsUnsignalled ==
  (exitAfter = 0 /\ ~signalled) => Running

\* C6 amended: with exitAfter = 0, main never reaches its os.Exit: it
\* enters blockForEver after the store and stays there; the process ends
\* only through a signal or through log.Fatalf of the server goroutine.
C6_Inv ==
  exitAfter = 0 =>
    /\ mainPc \notin {"SleepExit", "Exit"}
    /\ exitedBy # "main"
    /\ mainPc = "blockForEver" => ready
    /\ (~signalled /\ srvPc # "failed") => Running

C6_NeverExitsOnItsOwn ==
  /\ []C6_Inv
  /\ [][mainPc = "blockForEver" => mainPc' = "blockForEver"]_vars

C6_Witness ==
  /\ exitAfter = 0 /\ mainPc = "blockForEver" /\ Running
  /\ ~signalled /\ srvPc = "serving" /\ now >= MaxTime

\* C7 as stated: with exitAfter > 0 and no signal delivered, a process that
\* has ended has exited with exitCode, after the store and no earlier than
\* exitAfter after it.
C7_ExitsWithCodeUnsignalled ==
  (exitAfter > 0 /\ ~signalled /\ Ended) =>
    /\ status = "exited" /\ exitStatus = exitCode
    /\ ready /\ readyAt >= 0 /\ now >= readyAt + exitAfter

\* C7 amended: the same for executions in which, besides, ListenAndServe
\* does not return an error; and such an execution does reach the exit.
C7_Inv ==
  (exitAfter > 0 /\ ~signalled /\ srvPc # "failed" /\ Ended) =>
    /\ status = "exited" /\ exitStatus = exitCode /\ exitedBy = "main"
    /\ ready /\ readyAt >= 0 /\ now >= readyAt + exitAfter

C7_ExitsWithCode ==
  /\ []C7_Inv
  /\ <>(exitAfter = 0 \/ signalled \/ srvPc = "failed" \/ Ended)

C7_Witness ==
  /\ exitAfter > 0 /\ ~signalled /\ srvPc = "serving"
  /\ status = "exited" /\ exitStatus = 7 /\ exitedBy = "main"

\* C8: a request to /healthz with another method than GET is answered 405
\* whatever the flag is, its handler never loads the flag, and no step of a
\* request goroutine changes the flag.
C8_Inv ==
  \A h \in Handlers : (hs[h].path = "/healthz" /\ hs[h].method # "GET") =>
    /\ hs[h].pc # "loaded"
    /\ hs[h].r = "unread"
    /\ Answered(h) => hs[h].code = 405

C8_NonGetIs405 ==
  /\ []C8_Inv
  /\ [][HandlerStep => ready' = ready]_vars

C8_Witness ==
  \E h \in Handlers :
    Answered(h) /\ hs[h].path = "/healthz" /\ hs[h].method = "POST"
      /\ hs[h].code = 405 /\ ready

\* C9: on the diagnostic route the status is n when the statusCode value
\* is a decimal numeral of an integer n in 100..999 (an optional sign and
\* leading zeros allowed, as an integer is written), and 200 for every
\* other value, the absent one included.
DigitChar == <<"0", "1", "2", "3", "4", "5", "6", "7", "8", "9">>

Numeral(n) ==
  <<DigitChar[(n \div 100) + 1], DigitChar[((n \div 10) % 10) + 1], DigitChar[(n % 10) + 1]>>

Numerals == {Numeral(n) : n \in 100..999}

\* the part of q before its last three characters: a sign and zeros only
PlainFront(q) ==
  \A i \in 1..(Len(q) - 3) : q[i] = "0" \/ (i = 1 /\ q[i] = "+")

Last3(q) == SubSeq(q, Len(q) - 2, Len(q))

DenotesOverride(q) == Len(q) >= 3 /\ Last3(q) \in Numerals /\ PlainFront(q)

C9_StatusOverride ==
  \A h \in Handlers : (Answered(h) /\ variant = "extended" /\ hs[h].path # "/healthz") =>
    IF DenotesOverride(hs[h].query)
      THEN hs[h].code \in 100..999 /\ Numeral(hs[h].code) = Last3(hs[h].query)
      ELSE hs[h].code = 200

C9_Witness ==
  \E h \in Handlers : Answered(h) /\ hs[h].path = "/other"
    /\ hs[h].query = <<"2", "0", "4">> /\ hs[h].code = 204

\* C10: the process ends at most once; the os.Exit call that runs first
\* fixes the code: 0 from the signal goroutine, exitCode from main, non-zero
\* from log.Fatalf; there is no other exit code.
C10_Inv ==
  /\ status = "exited" =>
       \/ exitedBy = "signal" /\ sigPc = "got"   /\ exitStatus = 0
       \/ exitedBy = "main"   /\ mainPc = "Exit" /\ exitStatus = exitCode
       \/ exitedBy = "fatal"  /\ srvPc = "failed" /\ exitStatus # 0
  /\ status # "exited" => (exitStatus = -1 /\ exitedBy = "none")

C10_ExitOnce ==
  /\ []C10_Inv
  /\ [][Ended => UNCHANGED <<status, exitStatus, exitedBy>>]_vars

\* main's exit won the race against a signal goroutine that had its signal
C10_Witness ==
  status = "exited" /\ exitedBy = "main" /\ exitStatus = 7 /\ sigPc = "got"

\* C11 as stated: in the simple variant every request to a path other than
\* / and /healthz is answered 404.
Unmapped(h) == hs[h].path \notin {"/", "/healthz"}

C11_UnmappedIs404 ==
  \A h \in Handlers : (variant = "simple" /\ Answered(h) /\ Unmapped(h)) =>
    hs[h].code = 404

\* C11 amended: every GET request to such a path is answered with the
\* standard 404; the handler does not touch the flag for it.
C11_UnmappedGetIs404 ==
  \A h \in Handlers : (variant = "simple" /\ Unmapped(h) /\ hs[h].method = "GET") =>
    /\ hs[h].pc \in {"idle", "done"}
    /\ hs[h].r = "unread"
    /\ Answered(h) => (hs[h].code = 404 /\ hs[h].body = "404 page not found")

C11_Witness ==
  \E h \in Handlers :
    variant = "simple" /\ Answered(h) /\ hs[h].path = "/other"
      /\ hs[h].method = "GET" /\ hs[h].code = 404 /\ ready

\* C12: the Content-Type that handleHealth sets, text/plain, is the
\* Content-Type of the headers its 200 and 503 responses go out with.
C12_HealthContentTypeSent ==
  \A h \in Handlers : (Answered(h) /\ GetHealth(h)) =>
    (hs[h].hdr = "text/plain" /\ hs[h].ctype = hs[h].hdr)

\* C13 as stated: in the extended variant a request to a path other than
\* /healthz is answered with the JSON document and never with 405 or 404.
Diag(h) == variant = "extended" /\ hs[h].path # "/healthz"

NoBodyStatus(c) == c \in 100..199 \cup {204, 304}

C13_Inv ==
  \A h \in Handlers : Diag(h) =>
    /\ hs[h].pc \in {"idle", "done"}
    /\ hs[h].r = "unread"
    /\ Answered(h) =>
         /\ hs[h].ctype = "application/json"
         /\ hs[h].body = (IF NoBodyStatus(hs[h].code) THEN "" ELSE "json")
         /\ hs[h].code \in {404, 405} =>
              (DenotesOverride(hs[h].query) /\ Numeral(hs[h].code) = Last3(hs[h].query))

C14_ListenFailExitsNonZero ==
  (srvPc = "failed" /\ Ended) => (status = "exited" /\ exitStatus # 0)

\* C14 amended: once ListenAndServe has returned its error the process
\* ends, in whatever state main is; it does so by an exit, with the non-zero
\* code of log.Fatalf unless the os.Exit(0) of the signal goroutine or the
\* os.Exit(exitCode) of main runs first.
C14_Inv ==
  (srvPc = "failed" /\ Ended) =>
    /\ status = "exited"
    /\ exitedBy = "fatal" => exitStatus # 0
    /\ exitStatus = 0 =>
         \/ exitedBy = "signal" /\ signalled
         \/ exitedBy = "main" /\ exitCode = 0

C14_ListenFailIsFatal ==
  /\ []C14_Inv
  /\ [][srvPc = "failed" => srvPc' = "failed"]_vars
  /\ (srvPc = "failed") ~> Ended

C14_Witness ==
  /\ srvPc = "failed" /\ status = "exited" /\ exitedBy = "fatal" /\ exitStatus = 1
  /\ mainPc = "blockForEver" /\ ~signalled

\* C15: main goes through the phases start, wait-until-ready, ready, run,
\* exit in this order, one at a time and never back; the flag is true exactly
\* from the phase ready on; and in a fair execution without signal and
\* without server failure the flag becomes true, and it stays true while the
\* process runs.
PhaseOf(pc) ==
  CASE pc \in {"NotifySIGTERM", "NotifySIGINT", "goShutdown", "goRunServer"} -> 0
    [] pc \in {"waitToBeReady", "SleepReady", "Store"}                      -> 1
    [] pc = "justRun"                                                       -> 2
    [] pc \in {"SleepExit", "blockForEver"}                                 -> 3
    [] pc = "Exit"                                                          -> 4

C15_PhaseOrder ==
  /\ [](ready <=> PhaseOf(mainPc) >= 2)
  /\ [][PhaseOf(mainPc') \in {PhaseOf(mainPc), PhaseOf(mainPc) + 1}]_vars
  /\ [][ready => ready']_vars
  /\ <>(ready \/ signalled \/ srvPc = "failed")

C15_Witness ==
  /\ mainPc = "Exit" /\ Running /\ ready
  /\ ~signalled /\ srvPc = "serving" /\ readyAfter > 0

\* C16 as stated: with exitAfter > 0 every fair execution reaches the exit
\* that main makes with exitCode once its second wait has ended.
C16_MainAlwaysExits ==
  exitAfter > 0 => <>(status = "exited" /\ exitedBy = "main" /\ exitStatus = exitCode)

\* C16 amended: with exitAfter > 0 every fair execution reaches a state in
\* which the process has ended, with or without signals and requests in
\* flight; unless a signal or log.Fatalf has ended it before, main's second
\* wait ends and main exits with exitCode.
C16_EventuallyExits ==
  /\ <>(exitAfter = 0
          \/ (Ended /\ (signalled \/ srvPc = "failed"
                          \/ (status = "exited" /\ exitedBy = "main"))))
  /\ [](exitedBy = "main" => (exitAfter > 0 /\ exitStatus = exitCode /\ mainPc = "Exit"))

C16_Witness ==
  /\ exitAfter > 0 /\ status = "exited" /\ exitedBy = "main" /\ signalled
  /\ \E h \in Handlers : hs[h].pc = "aborted"

\* C17: the JSON document of a diagnostic request that carries a form
\* field, here the query parameter statusCode, has a form entry with that
\* field.
C17_FormEchoed ==
  \A h \in Handlers : (Answered(h) /\ Diag(h) /\ hs[h].body = "json") =>
    (Query(hs[h]) \subseteq hs[h].bodyForm)


lifecyclePc == IF mainPc = "SleepReady" /\ readyAfter = 0 THEN "Store" ELSE mainPc

LifecycleStep ==
  \/ /\ PhaseOf(lifecyclePc) = 0
     /\ PhaseOf(lifecyclePc') = 0 \/ lifecyclePc' = "waitToBeReady"
     /\ ready' = ready /\ exitedBy' # "main"
  \/ /\ lifecyclePc = "waitToBeReady"
     /\ lifecyclePc' = IF readyAfter > 0 THEN "SleepReady" ELSE "Store"
     /\ readyAfter > 0 => wakeAt' = now + readyAfter
     /\ ready' = ready /\ exitedBy' # "main"
  \/ /\ lifecyclePc = "SleepReady" /\ lifecyclePc' = "Store"
     /\ now >= wakeAt
     /\ ready' = ready /\ exitedBy' # "main"
  \/ /\ lifecyclePc = "Store" /\ lifecyclePc' = "justRun"
     /\ ~ready /\ ready' /\ exitedBy' # "main"
  \/ /\ lifecyclePc = "justRun"
     /\ lifecyclePc' = IF exitAfter = 0 THEN "blockForEver" ELSE "SleepExit"
     /\ exitAfter # 0 => wakeAt' = now + exitAfter
     /\ ready' = ready /\ exitedBy' # "main"
  \/ /\ lifecyclePc = "SleepExit" /\ lifecyclePc' = "Exit"
     /\ now >= wakeAt
     /\ ready' = ready /\ exitedBy' # "main"
  \/ /\ lifecyclePc = "Exit" /\ lifecyclePc' = "Exit"
     /\ exitedBy # "main" /\ exitedBy' = "main" /\ exitStatus' = exitCode
     /\ ready' = ready

C19_ZeroSleepUnseen ==
  (mainPc = "SleepReady" /\ readyAfter = 0) =>
    /\ variant = "simple"
    /\ ~ready
    /\ Running => ENABLED WakeReady

C19_SameLifecycle ==
  /\ [][(lifecyclePc' # lifecyclePc \/ ready' # ready
           \/ (exitedBy' = "main") # (exitedBy = "main")) => LifecycleStep]_vars
  /\ []C19_ZeroSleepUnseen

C19_Witness ==
  /\ variant = "simple" /\ readyAfter = 0
  /\ readyAt = waitStart
  /\ exitedBy = "main" /\ exitStatus = exitCode
====
